---- MODULE Spec2Model ----
(***************************************************************************)
(* libevmjit/Runtime.cpp: the host-side Runtime (the per-call layout block *)
(* RuntimeData and its accessors) and the code-generation side             *)
(* RuntimeManager (the instructions generated code uses to reach the       *)
(* block, and the longjmp-based abort).                                    *)
(*                                                                         *)
(* Four specifications share the definitions below:                        *)
(*   SpecRet    one call: registerReturnData / Runtime::getReturnData      *)
(*   SpecField  one call: set / get / setGas / Runtime::getGas             *)
(*   SpecRun    calls on two threads, nested, running the generated code   *)
(*   SpecEmit   compile time: RuntimeManager emitting into a module        *)
(***************************************************************************)
EXTENDS Integers, Sequences, FiniteSets, TLC

(***************************************************************************)
(* Bounds.  The build has 64-bit size_t and i256 words of four 64-bit      *)
(* limbs; the model keeps the structure at a smaller width.                *)
(***************************************************************************)
SizeBits == 2
NumLimbs == 2
MaxMem == 3
MaxDirty == 1
MaxDepth == 2
MaxManagers == 2
MaxBody == 7

SizeMod == 2 ^ SizeBits
LimbMod == SizeMod
WordMod == LimbMod ^ NumLimbs
Words == 0 .. (WordMod - 1)
\* Words around the edges of the size_t range.
SampleWords == {0, 1, 2, SizeMod - 1, SizeMod, SizeMod + 1, WordMod - 1}
GasValues == {SizeMod + 2, WordMod - 2}
SetValues == {0, WordMod - 1}

Undef == "undef"

(***************************************************************************)
(* Value marshalling (Type.h / Utils.h): u256 <-> i256, h160 -> u256.      *)
(***************************************************************************)
\* i256 is a struct of limbs, least significant first.
eth2llvm(v) == [i \in 1 .. NumLimbs |-> (v \div (LimbMod ^ (i - 1))) % LimbMod]

RECURSIVE LimbSum(_, _)
LimbSum(l, n) == IF n = 0 THEN 0 ELSE l[n] * (LimbMod ^ (n - 1)) + LimbSum(l, n - 1)

llvm2eth(l) == LimbSum(l, NumLimbs)

\* An address is a big-endian digit string; the word is its value, zero-extended.
RECURSIVE fromAddress(_)
fromAddress(a) == IF a = <<>> THEN 0
                  ELSE a[Len(a)] + LimbMod * fromAddress(SubSeq(a, 1, Len(a) - 1))

\* static_cast<size_t>(u256): the low SizeBits bits.
ToSize(v) == v % SizeMod

(***************************************************************************)
(* RuntimeData (Runtime.h): the word array and the three pointer members.  *)
(***************************************************************************)
\* enum RuntimeData::Index, in order; _size is the number of entries.
IndexNames == << "Gas", "Address", "Caller", "Origin", "CallValue", "CallDataSize",
                 "GasPrice", "PrevHash", "CoinBase", "TimeStamp", "Number",
                 "Difficulty", "GasLimit", "CodeSize",
                 "ReturnDataOffset", "ReturnDataSize" >>

FieldNames == {IndexNames[i] : i \in 1 .. Len(IndexNames)}

IndexOf == [n \in FieldNames |-> (CHOOSE i \in 1 .. Len(IndexNames) : IndexNames[i] = n) - 1]

Index(name) == IndexOf[name]

RuntimeData_size == Len(IndexNames)

IndexRange == 0 .. (RuntimeData_size - 1)

\* RuntimeData::getType(): struct members by position, 0-based as GEP counts them.
RuntimeDataType == << "elems", "callData", "code", "jmpBuf" >>

MemberOf == [n \in {RuntimeDataType[i] : i \in 1 .. Len(RuntimeDataType)} |->
                (CHOOSE i \in 1 .. Len(RuntimeDataType) : RuntimeDataType[i] = n) - 1]

Member(name) == MemberOf[name]

\* getName(_index): the 14 named fields; anything else is "data".
getName(i) ==
    CASE i = Index("Gas") -> "gas"
      [] i = Index("Address") -> "address"
      [] i = Index("Caller") -> "caller"
      [] i = Index("Origin") -> "origin"
      [] i = Index("CallValue") -> "callvalue"
      [] i = Index("CallDataSize") -> "calldatasize"
      [] i = Index("GasPrice") -> "gasprice"
      [] i = Index("PrevHash") -> "prevhash"
      [] i = Index("CoinBase") -> "coinbase"
      [] i = Index("TimeStamp") -> "timestamp"
      [] i = Index("Number") -> "number"
      [] i = Index("Difficulty") -> "difficulty"
      [] i = Index("GasLimit") -> "gaslimit"
      [] i = Index("CodeSize") -> "codesize"
      [] OTHER -> "data"

(***************************************************************************)
(* The external environment of a call (ExtVMFace), read only.              *)
(***************************************************************************)
Ext == [ myAddress |-> <<0, 1>>, caller |-> <<0, 2>>, origin |-> <<0, 3>>,
         value |-> SizeMod, dataSize |-> 5, gasPrice |-> 6,
         previousBlockHash |-> 7, coinbaseAddress |-> <<2, 1>>,
         timestamp |-> 10, number |-> 11, difficulty |-> 12, gasLimit |-> 13,
         codeSize |-> 8, dataPtr |-> "calldata", codePtr |-> "code" ]

(***************************************************************************)
(* Runtime, host side.  m_data is the struct as a tuple of its members.    *)
(***************************************************************************)
\* Runtime::set(_index, _value)
RuntimeSet(data, i, v) ==
    [data EXCEPT ![Member("elems") + 1] = [@ EXCEPT ![i] = eth2llvm(v)]]

\* Runtime::Runtime(_gas, _ext, _jmpBuf).  junk is what the storage held before:
\* the constructor writes the 14 named words and the pointers, nothing else.
RuntimeCtor(gas, ext, jmpBuf, junk) ==
    LET d0 == << junk, Undef, Undef, Undef >>
        d1 == RuntimeSet(d0, Index("Gas"), gas)
        d2 == RuntimeSet(d1, Index("Address"), fromAddress(ext.myAddress))
        d3 == RuntimeSet(d2, Index("Caller"), fromAddress(ext.caller))
        d4 == RuntimeSet(d3, Index("Origin"), fromAddress(ext.origin))
        d5 == RuntimeSet(d4, Index("CallValue"), ext.value)
        d6 == RuntimeSet(d5, Index("CallDataSize"), ext.dataSize)
        d7 == RuntimeSet(d6, Index("GasPrice"), ext.gasPrice)
        d8 == RuntimeSet(d7, Index("PrevHash"), ext.previousBlockHash)
        d9 == RuntimeSet(d8, Index("CoinBase"), fromAddress(ext.coinbaseAddress))
        d10 == RuntimeSet(d9, Index("TimeStamp"), ext.timestamp)
        d11 == RuntimeSet(d10, Index("Number"), ext.number)
        d12 == RuntimeSet(d11, Index("Difficulty"), ext.difficulty)
        d13 == RuntimeSet(d12, Index("GasLimit"), ext.gasLimit)
        d14 == RuntimeSet(d13, Index("CodeSize"), ext.codeSize)
    IN  [d14 EXCEPT ![Member("callData") + 1] = ext.dataPtr,
                    ![Member("code") + 1] = ext.codePtr,
                    ![Member("jmpBuf") + 1] = jmpBuf]

\* Runtime::getGas()
RuntimeGetGas(data) == llvm2eth(data[Member("elems") + 1][Index("Gas")])

\* Runtime::getReturnData() on a buffer of memSize bytes.  assert() ends the
\* process unless the build defines NDEBUG, in which case it is no statement.
RuntimeGetReturnData(data, memSize, noAssert) ==
    LET offset == ToSize(llvm2eth(data[Member("elems") + 1][Index("ReturnDataOffset")]))
        size == ToSize(llvm2eth(data[Member("elems") + 1][Index("ReturnDataSize")]))
    IN  IF ~noAssert /\ ~(ToSize(offset + size) <= memSize)
        THEN [kind |-> "assert_failed", offset |-> offset, size |-> size]
        ELSE [kind |-> "view", offset |-> offset, size |-> size]

(***************************************************************************)
(* Instructions the IRBuilder creates, as terms.                           *)
(***************************************************************************)
NullValue == [k |-> "null"]
Arg(n) == [k |-> "arg", n |-> n]
Const(c) == [k |-> "const", v |-> c]
GlobalVar(g) == [k |-> "global", g |-> g]
CreateLoad(p) == [k |-> "load", ptr |-> p]
CreateStore(v, p) == [k |-> "store", val |-> v, ptr |-> p]
CreateInBoundsGEP(base, path) == [k |-> "gep", base |-> base, path |-> path]
CreateStructGEP(base, n) == [k |-> "gep", base |-> base, path |-> <<0, n>>]
CreateCall2(f, a1, a2) == [k |-> "call", callee |-> f, a1 |-> a1, a2 |-> a2]

MainFunc == "main"
Functions == {"main", "helper"}

\* The entry function's parameters (Compiler): "Runtime is the second parameter".
MainParams == << "int", "RuntimePtr" >>

\* CompilerHelper::getMainFunction(): the function being emitted into when it is
\* the entry function, null in any other function.
getMainFunction(fn) == IF fn = MainFunc THEN fn ELSE "nullptr"

(***************************************************************************)
(* RuntimeManager.  fn is the function the builder is emitting into, and   *)
(* dataPtr the manager's m_dataPtr.  Each operator is the value the method *)
(* returns, or the instruction it creates.                                 *)
(***************************************************************************)
\* Faulty variant, for comparison: the store takes the entry function's first argument.
CtorStore_FirstArg(dataPtr) == CreateStore(Arg(1), dataPtr)

\* The constructor's "Export data": store the entry function's last argument
\* into the global.
CtorStore(dataPtr) == CreateStore(Arg(Len(MainParams)), dataPtr)

getRuntimePtr(fn, dataPtr) ==
    IF getMainFunction(fn) # "nullptr" THEN Arg(2) ELSE CreateLoad(dataPtr)

getPtr(i, fn, dataPtr) == CreateInBoundsGEP(getRuntimePtr(fn, dataPtr), <<0, 0, i>>)

get(i, fn, dataPtr) == CreateLoad(getPtr(i, fn, dataPtr))

set(i, value, fn, dataPtr) == CreateStore(value, getPtr(i, fn, dataPtr))

\* Faulty variant, for comparison: offset and size stored to each other's slot.
registerReturnData_Swapped(offset, size, fn, dataPtr) ==
    << set(Index("ReturnDataOffset"), size, fn, dataPtr),
       set(Index("ReturnDataSize"), offset, fn, dataPtr) >>

registerReturnData(offset, size, fn, dataPtr) ==
    << set(Index("ReturnDataOffset"), offset, fn, dataPtr),
       set(Index("ReturnDataSize"), size, fn, dataPtr) >>

getCallData(fn, dataPtr) == CreateLoad(CreateStructGEP(getRuntimePtr(fn, dataPtr), 1))

getCode(fn, dataPtr) == CreateLoad(CreateStructGEP(getRuntimePtr(fn, dataPtr), 2))

getJmpBuf(fn, dataPtr) == CreateLoad(CreateStructGEP(getRuntimePtr(fn, dataPtr), 3))

raiseException(returnCode, fn, dataPtr, longjmp) ==
    CreateCall2(longjmp, getJmpBuf(fn, dataPtr), Const(returnCode))

\* Instruction opcodes: the 14 the switch names, and some it does not.
MappedOpcodes == {"GAS", "ADDRESS", "CALLER", "ORIGIN", "CALLVALUE", "CALLDATASIZE",
                  "GASPRICE", "PREVHASH", "COINBASE", "TIMESTAMP", "NUMBER",
                  "DIFFICULTY", "GASLIMIT", "CODESIZE"}
OtherOpcodes == {"STOP", "BALANCE", "CALLDATALOAD", "MSIZE"}
Instructions == MappedOpcodes \cup OtherOpcodes

\* Faulty variant, for comparison: the CALLER and ORIGIN cases return each other's field.
InstIndex_Swapped(inst) ==
    CASE inst = "GAS" -> Index("Gas")
      [] inst = "ADDRESS" -> Index("Address")
      [] inst = "CALLER" -> Index("Origin")
      [] inst = "ORIGIN" -> Index("Caller")
      [] inst = "CALLVALUE" -> Index("CallValue")
      [] inst = "CALLDATASIZE" -> Index("CallDataSize")
      [] inst = "GASPRICE" -> Index("GasPrice")
      [] inst = "PREVHASH" -> Index("PrevHash")
      [] inst = "COINBASE" -> Index("CoinBase")
      [] inst = "TIMESTAMP" -> Index("TimeStamp")
      [] inst = "NUMBER" -> Index("Number")
      [] inst = "DIFFICULTY" -> Index("Difficulty")
      [] inst = "GASLIMIT" -> Index("GasLimit")
      [] inst = "CODESIZE" -> Index("CodeSize")
      [] OTHER -> -1

\* The switch of get(Instruction): the index it passes to get(Index), or -1 on
\* the default label.
InstIndex(inst) ==
    CASE inst = "GAS" -> Index("Gas")
      [] inst = "ADDRESS" -> Index("Address")
      [] inst = "CALLER" -> Index("Caller")
      [] inst = "ORIGIN" -> Index("Origin")
      [] inst = "CALLVALUE" -> Index("CallValue")
      [] inst = "CALLDATASIZE" -> Index("CallDataSize")
      [] inst = "GASPRICE" -> Index("GasPrice")
      [] inst = "PREVHASH" -> Index("PrevHash")
      [] inst = "COINBASE" -> Index("CoinBase")
      [] inst = "TIMESTAMP" -> Index("TimeStamp")
      [] inst = "NUMBER" -> Index("Number")
      [] inst = "DIFFICULTY" -> Index("Difficulty")
      [] inst = "GASLIMIT" -> Index("GasLimit")
      [] inst = "CODESIZE" -> Index("CodeSize")
      [] OTHER -> -1

\* Faulty variant, for comparison: the default label falls into the first case.
getInst_DefaultIsGas(inst, fn, dataPtr, noAssert) ==
    [path |-> "case", fatal |-> FALSE,
     value |-> get(IF InstIndex(inst) = -1 THEN Index("Gas") ELSE InstIndex(inst),
                   fn, dataPtr)]

\* get(Instruction): what it reaches and returns.  On the default label
\* assert(false) ends the compiler; with NDEBUG it returns nullptr.
getInst(inst, fn, dataPtr, noAssert) ==
    IF InstIndex(inst) = -1
    THEN [path |-> "default", fatal |-> ~noAssert, value |-> NullValue]
    ELSE [path |-> "case", fatal |-> FALSE, value |-> get(InstIndex(inst), fn, dataPtr)]

getGas(fn, dataPtr) == get(Index("Gas"), fn, dataPtr)

\* Faulty variant, for comparison: the address is computed with another field's index.
setGas_WrongIndex(gas, fn, dataPtr) ==
    CreateStore(gas, CreateInBoundsGEP(getRuntimePtr(fn, dataPtr), <<0, 0, Index("Address")>>))

setGas(gas, fn, dataPtr) ==
    CreateStore(gas, CreateInBoundsGEP(getRuntimePtr(fn, dataPtr), <<0, 0, Index("Gas")>>))

(***************************************************************************)
(* Running the generated instructions.  memo maps a block's address to the *)
(* struct stored there, args are the running entry function's arguments    *)
(* and slot is the content of the global.                                  *)
(***************************************************************************)
\* An i256 in memory, as the generated loads and stores see it.
WordToMem(v) == [i \in 1 .. NumLimbs |-> (v \div (LimbMod ^ (i - 1))) % LimbMod]
MemToWord(l) == LimbSum(l, NumLimbs)

\* The layout pointer a handle term evaluates to.
EvalHandle(h, args, slot) == IF h.k = "arg" THEN args[h.n] ELSE slot

\* The block an address computation lands in.
EvalBlock(p, args, slot) == EvalHandle(p.base, args, slot)

\* The content of the place an address computation names.
ReadPlace(p, memo, args, slot) ==
    LET blk == memo[EvalBlock(p, args, slot)]
    IN  IF Len(p.path) = 3 THEN MemToWord(blk[p.path[2] + 1][p.path[3]])
        ELSE blk[p.path[2] + 1]

ExecLoad(ins, memo, args, slot) == ReadPlace(ins.ptr, memo, args, slot)

\* A store of a constant word through an element address.
ExecStore(ins, memo, args, slot) ==
    LET a == EvalBlock(ins.ptr, args, slot)
    IN  [memo EXCEPT ![a] =
            [@ EXCEPT ![ins.ptr.path[2] + 1] =
                [@ EXCEPT ![ins.ptr.path[3]] = WordToMem(ins.val.v)]]]

\* The arguments the host passes to the entry function for the Runtime at addr:
\* an int, which is no layout pointer, and the Runtime's address.
MainArgs(addr) == << <<0, 0>>, addr >>

(***************************************************************************)
(* State.                                                                  *)
(***************************************************************************)
VARIABLES
    ndebug,       \* the build defines NDEBUG: assert() is no statement
    rt,           \* the content of the global "rt": a layout pointer, or NoPtr
    \* one call (SpecRet, SpecField)
    m_data,       \* Runtime::m_data
    memSize,      \* m_memory.size()
    lastReg,      \* the arguments of the last registerReturnData run
    hostRet,      \* what the last Runtime::getReturnData() did
    hist,         \* per field, the word last passed to a set of that field
    dirty,        \* the fields generated code has stored to
    lastRead,     \* the last read of a field, by generated code or by the host
    \* calls on threads (SpecRun)
    depth,        \* per thread, the number of active calls
    pc,           \* per call, where it is: constructed, main, helper
    blockJmp,     \* per block address, the jmpBuf member stored there
    entryStored,  \* per call, the pointer its entry function stored into rt
    lastEv,       \* the last thing generated code did through a handle
    thState,      \* the process: running, or undefined once undefined behaviour ran
    \* compile time (SpecEmit)
    globals,      \* the module's global variables
    decls,        \* the module's function declarations
    body,         \* per function, the kinds of the instructions emitted into it
    insertFn,     \* the function the builder is emitting into
    managers,     \* the RuntimeManagers created: their m_dataPtr and m_longjmp
    lastEmit,     \* what the last RuntimeManager method returned and emitted
    emitState     \* the compiler: running, aborted, or undefined behaviour

varsCall == << m_data, memSize, lastReg, hostRet, hist, dirty, lastRead >>
varsRun == << depth, pc, blockJmp, entryStored, lastEv, thState >>
varsEmit == << globals, decls, body, insertFn, managers, lastEmit, emitState >>
vars == << ndebug, rt, varsCall, varsRun, varsEmit >>

NoPtr == << 0, 0 >>
Threads == {1, 2}
Addrs == Threads \X (1 .. MaxDepth)

\* The one Runtime of SpecRet and SpecField, and the module's one global.
Self == << 1, 1 >>
TheGlobal == GlobalVar(1)
TheLongjmp == "longjmp"

NoRet == [kind |-> "none", offset |-> 0, size |-> 0]
NoReg == [done |-> FALSE, offset |-> 0, size |-> 0]
NoRead == [by |-> "none", op |-> "none", val |-> 0]
NoEv == [kind |-> "none", t |-> 0, d |-> 0, fn |-> "none", blk |-> NoPtr,
         slot |-> NoPtr, stored |-> NoPtr, target |-> NoPtr, code |-> 0,
         observed |-> 0, defined |-> TRUE]
NoEmit == [op |-> "none", inst |-> "none", path |-> "none", value |-> NullValue,
           fn |-> "none", added |-> <<>>]

\* Variables a specification does not use keep these values.
IdleCall == /\ m_data = <<>> /\ memSize = 0 /\ lastReg = NoReg /\ hostRet = NoRet
            /\ hist = <<>> /\ dirty = {} /\ lastRead = NoRead
IdleRun == /\ depth = <<>> /\ pc = <<>> /\ blockJmp = <<>> /\ entryStored = <<>>
           /\ lastEv = NoEv /\ thState = "none"
IdleEmit == /\ globals = <<>> /\ decls = <<>> /\ body = <<>> /\ insertFn = "none"
            /\ managers = <<>> /\ lastEmit = NoEmit /\ emitState = "none"

\* Storage a Runtime is constructed in: the two return-data words hold whatever
\* was there, the rest is overwritten by the constructor.
Junk(o, s) == [i \in IndexRange |->
                 IF i = Index("ReturnDataOffset") THEN WordToMem(o)
                 ELSE IF i = Index("ReturnDataSize") THEN WordToMem(s)
                 ELSE WordToMem(0)]

\* The word each field holds once the constructor is done.
CtorHist(gas, o, s) ==
    LET d == RuntimeCtor(gas, Ext, Self, Junk(o, s))
    IN  [n \in FieldNames |->
            llvm2eth(d[Member("elems") + 1][Index(n)])]

(***************************************************************************)
(* One call.  Init is the state after Runtime's constructor.               *)
(***************************************************************************)
InitRet ==
    /\ ndebug \in BOOLEAN
    /\ rt = NoPtr
    /\ memSize \in 0 .. MaxMem
    /\ \E o \in SampleWords : \E s \in SampleWords :
          m_data = RuntimeCtor(WordMod - 2, Ext, Self, Junk(o, s))
    /\ lastReg = NoReg
    /\ hostRet = NoRet
    /\ hist = <<>>
    /\ dirty = {}
    /\ lastRead = NoRead
    /\ IdleRun
    /\ IdleEmit

Alive == hostRet.kind # "assert_failed"

Memo == [a \in {Self} |-> m_data]

\* The host calls the entry function, which starts with the constructor's store.
EnterMain ==
    /\ Alive
    /\ rt = NoPtr
    /\ rt' = EvalHandle(CtorStore(TheGlobal).val, MainArgs(Self), rt)
    /\ UNCHANGED << ndebug, varsCall, varsRun, varsEmit >>

\* Generated code, in the entry function or a helper, runs registerReturnData.
GenRegisterReturnData(fn, o, s) ==
    LET code == registerReturnData(Const(o), Const(s), fn, TheGlobal)
        m1 == ExecStore(code[1], Memo, MainArgs(Self), rt)
        m2 == ExecStore(code[2], m1, MainArgs(Self), rt)
    IN  /\ Alive
        /\ rt # NoPtr
        /\ m_data' = m2[Self]
        /\ lastReg' = [done |-> TRUE, offset |-> o, size |-> s]
        /\ hostRet' = NoRet
        /\ UNCHANGED << ndebug, rt, memSize, hist, dirty, lastRead, varsRun, varsEmit >>

\* The host reads the return data.
HostGetReturnData ==
    /\ Alive
    /\ hostRet' = RuntimeGetReturnData(m_data, memSize, ndebug)
    /\ UNCHANGED << ndebug, rt, m_data, memSize, lastReg, hist, dirty, lastRead,
                    varsRun, varsEmit >>

NextRet ==
    \/ EnterMain
    \/ \E fn \in Functions : \E o \in SampleWords : \E s \in SampleWords :
          GenRegisterReturnData(fn, o, s)
    \/ HostGetReturnData

SpecRet == InitRet /\ [][NextRet]_vars

\* The words the two return-data fields hold.
RetOffsetWord == llvm2eth(m_data[Member("elems") + 1][Index("ReturnDataOffset")])
RetSizeWord == llvm2eth(m_data[Member("elems") + 1][Index("ReturnDataSize")])

\* C1: whatever the two return-data words hold (set by registerReturnData or
\* never set), when offset + size exceeds the buffer length getReturnData
\* returns an empty view: it neither aborts nor returns a view that runs
\* past the end of the buffer.
C1_EmptyViewWhenOutOfRange ==
    (hostRet.kind # "none" /\ RetOffsetWord + RetSizeWord > memSize)
        => (hostRet.kind = "view" /\ hostRet.size = 0)

\* C10: when a return-data word does not fit size_t, or the size_t sum of the
\* two wraps, getReturnData faults or returns an empty view; it returns no
\* non-empty view made of the truncated or wrapped values.
C10_WideValuesClampOrFault ==
    (/\ hostRet.kind # "none"
     /\ \/ RetOffsetWord >= SizeMod
        \/ RetSizeWord >= SizeMod
        \/ ToSize(RetOffsetWord) + ToSize(RetSizeWord) >= SizeMod)
        => (hostRet.kind = "assert_failed" \/ hostRet.size = 0)

\* C7: after registerReturnData(O, S) with O + S within the buffer length, and
\* no later registerReturnData, getReturnData returns the view of exactly S
\* bytes at offset O.
C7_ReturnDataHandOff ==
    (/\ hostRet.kind # "none"
     /\ lastReg.done
     /\ lastReg.offset + lastReg.size <= memSize)
        => hostRet = [kind |-> "view", offset |-> lastReg.offset, size |-> lastReg.size]

C7_Witness ==
    /\ hostRet.kind = "view"
    /\ lastReg.done
    /\ lastReg.offset = 1
    /\ lastReg.size = 2
    /\ memSize = 3
    /\ hostRet.offset = 1
    /\ hostRet.size = 2

(***************************************************************************)
(* One call: the word fields.                                              *)
(***************************************************************************)
InitField ==
    /\ ndebug = FALSE
    /\ rt = NoPtr
    /\ memSize = MaxMem
    /\ \E g \in GasValues :
          /\ m_data = RuntimeCtor(g, Ext, Self, Junk(WordMod - 1, WordMod - 1))
          /\ hist = CtorHist(g, WordMod - 1, WordMod - 1)
    /\ lastReg = NoReg
    /\ hostRet = NoRet
    /\ dirty = {}
    /\ lastRead = NoRead
    /\ IdleRun
    /\ IdleEmit

\* Generated code runs set(field, x).
GenSet(fn, name, x) ==
    LET code == set(Index(name), Const(x), fn, TheGlobal)
    IN  /\ rt # NoPtr
        /\ name # "Gas"
        /\ name \in dirty \/ Cardinality(dirty) < MaxDirty
        /\ m_data' = ExecStore(code, Memo, MainArgs(Self), rt)[Self]
        /\ hist' = [hist EXCEPT ![name] = x]
        /\ dirty' = dirty \cup {name}
        /\ lastRead' = NoRead
        /\ UNCHANGED << ndebug, rt, memSize, lastReg, hostRet, varsRun, varsEmit >>

\* Generated code stores the gas word, by set(Gas, x) or by setGas(x).
GenSetGas(fn, how, x) ==
    LET code == IF how = "set" THEN set(Index("Gas"), Const(x), fn, TheGlobal)
                ELSE setGas(Const(x), fn, TheGlobal)
    IN  /\ rt # NoPtr
        /\ m_data' = ExecStore(code, Memo, MainArgs(Self), rt)[Self]
        /\ hist' = [hist EXCEPT !["Gas"] = x]
        /\ lastRead' = NoRead
        /\ UNCHANGED << ndebug, rt, memSize, lastReg, hostRet, dirty, varsRun, varsEmit >>

\* Generated code runs what get(opcode) emitted.
GenGetInst(fn, inst) ==
    LET r == getInst(inst, fn, TheGlobal, ndebug)
    IN  /\ rt # NoPtr
        /\ r.path = "case"
        /\ lastRead' = [by |-> "generated", op |-> inst,
                        val |-> ExecLoad(r.value, Memo, MainArgs(Self), rt)]
        /\ UNCHANGED << ndebug, rt, m_data, memSize, lastReg, hostRet, hist, dirty,
                        varsRun, varsEmit >>

\* Generated code runs what RuntimeManager::getGas() emitted.
GenGetGas(fn) ==
    /\ rt # NoPtr
    /\ lastRead' = [by |-> "generated", op |-> "getGas",
                    val |-> ExecLoad(getGas(fn, TheGlobal), Memo, MainArgs(Self), rt)]
    /\ UNCHANGED << ndebug, rt, m_data, memSize, lastReg, hostRet, hist, dirty,
                    varsRun, varsEmit >>

\* The host reads the remaining gas.
HostGetGas ==
    /\ lastRead' = [by |-> "host", op |-> "getGas", val |-> RuntimeGetGas(m_data)]
    /\ UNCHANGED << ndebug, rt, m_data, memSize, lastReg, hostRet, hist, dirty,
                    varsRun, varsEmit >>

NextField ==
    \/ EnterMain
    \/ \E fn \in Functions : \E n \in FieldNames : \E x \in SetValues : GenSet(fn, n, x)
    \/ \E fn \in Functions : \E how \in {"set", "setGas"} : \E x \in SetValues :
          GenSetGas(fn, how, x)
    \/ \E fn \in Functions : \E inst \in Instructions : GenGetInst(fn, inst)
    \/ \E fn \in Functions : GenGetGas(fn)
    \/ HostGetGas

SpecField == InitField /\ [][NextField]_vars

\* The field each query opcode stands for.
FieldOfOpcode ==
    [inst \in MappedOpcodes |->
        CASE inst = "GAS" -> "Gas"
          [] inst = "ADDRESS" -> "Address"
          [] inst = "CALLER" -> "Caller"
          [] inst = "ORIGIN" -> "Origin"
          [] inst = "CALLVALUE" -> "CallValue"
          [] inst = "CALLDATASIZE" -> "CallDataSize"
          [] inst = "GASPRICE" -> "GasPrice"
          [] inst = "PREVHASH" -> "PrevHash"
          [] inst = "COINBASE" -> "CoinBase"
          [] inst = "TIMESTAMP" -> "TimeStamp"
          [] inst = "NUMBER" -> "Number"
          [] inst = "DIFFICULTY" -> "Difficulty"
          [] inst = "GASLIMIT" -> "GasLimit"
          [] inst = "CODESIZE" -> "CodeSize"]

\* C5: a get(opcode) yields the word last passed to a set of the opcode's own
\* field, whatever was stored to the other fields since: each mapped opcode
\* reads the slot its field's set writes, and no other opcode's.
C5_SetGetRoundTrip ==
    (lastRead.by = "generated" /\ lastRead.op \in MappedOpcodes)
        => lastRead.val = hist[FieldOfOpcode[lastRead.op]]

C5_Witness ==
    /\ lastRead.by = "generated"
    /\ lastRead.op = "CODESIZE"
    /\ "CodeSize" \in dirty
    /\ lastRead.val = WordMod - 1
    /\ lastRead.val # Ext.codeSize

\* C6: every read of the gas word, by the gas-query opcode, by the generated
\* getGas() or by the host's getGas(), returns the word last stored to it: the
\* constructor's gas when generated code stored none, else the x of the last
\* set(Gas, x) or setGas(x); stores to other fields do not change it.
C6_GasReadBack ==
    (lastRead.op \in {"GAS", "getGas"}) => lastRead.val = hist["Gas"]

C6_Witness ==
    /\ lastRead.by = "host"
    /\ lastRead.op = "getGas"
    /\ lastRead.val = 0
    /\ dirty # {}
    /\ hist["Gas"] = 0

(***************************************************************************)
(* Calls on threads.  The Runtime of the call at depth d of thread t lives *)
(* at address <<t, d>>; the storage keeps its content when the call ends.  *)
(* The checkpoint captured for a call is named by the call's address.      *)
(* lastEv holds what the step just taken did through a handle.  Once       *)
(* undefined behaviour has run nothing more is said about the process.     *)
(***************************************************************************)
\* Status codes raiseException is passed (ReturnCode), as nonzero integers.
ReturnCodes == {101, 102}

\* longjmp(env, val): what setjmp returns at the checkpoint.
Longjmp(val) == IF val = 0 THEN 1 ELSE val

InitRun ==
    /\ ndebug = FALSE
    /\ rt = NoPtr
    /\ depth = [t \in Threads |-> 0]
    /\ pc = [a \in Addrs |-> "none"]
    /\ blockJmp = [a \in Addrs |-> NoPtr]
    /\ entryStored = [a \in Addrs |-> NoPtr]
    /\ lastEv = NoEv
    /\ thState = "running"
    /\ IdleCall
    /\ IdleEmit

Top(t) == << t, depth[t] >>

Running(t) == /\ thState = "running"
              /\ depth[t] > 0
              /\ pc[Top(t)] \in Functions

Live(a) == a \in Addrs /\ a[2] <= depth[a[1]]

\* The blocks as generated code finds them; only the jmpBuf member is kept.
MemoRun == [a \in Addrs |-> << <<>>, Ext.dataPtr, Ext.codePtr, blockJmp[a] >>]

\* The host, or generated code through the host, starts a call on thread t: it
\* captures a checkpoint and constructs the Runtime.
HostCall(t) ==
    LET a == << t, depth[t] + 1 >>
    IN  /\ thState = "running"
        /\ depth[t] < MaxDepth
        /\ IF depth[t] = 0 THEN TRUE ELSE pc[Top(t)] \in Functions
        /\ depth' = [depth EXCEPT ![t] = @ + 1]
        /\ pc' = [pc EXCEPT ![a] = "constructed"]
        /\ blockJmp' = [blockJmp EXCEPT ![a] =
              RuntimeCtor(WordMod - 2, Ext, a, Junk(0, 0))[Member("jmpBuf") + 1]]
        /\ entryStored' = [entryStored EXCEPT ![a] = NoPtr]
        /\ lastEv' = NoEv
        /\ UNCHANGED << ndebug, rt, thState, varsCall, varsEmit >>

\* The host calls the entry function, which starts with the constructor's store.
EnterMainRun(t) ==
    LET a == Top(t)
        p == EvalHandle(CtorStore(TheGlobal).val, MainArgs(a), rt)
    IN  /\ thState = "running"
        /\ depth[t] > 0
        /\ pc[a] = "constructed"
        /\ rt' = p
        /\ entryStored' = [entryStored EXCEPT ![a] = p]
        /\ pc' = [pc EXCEPT ![a] = MainFunc]
        /\ lastEv' = NoEv
        /\ UNCHANGED << ndebug, depth, blockJmp, thState, varsCall, varsEmit >>

CallHelper(t) ==
    /\ Running(t)
    /\ pc[Top(t)] = MainFunc
    /\ pc' = [pc EXCEPT ![Top(t)] = "helper"]
    /\ lastEv' = NoEv
    /\ UNCHANGED << ndebug, rt, depth, blockJmp, entryStored, thState,
                    varsCall, varsEmit >>

ReturnHelper(t) ==
    /\ Running(t)
    /\ pc[Top(t)] = "helper"
    /\ pc' = [pc EXCEPT ![Top(t)] = MainFunc]
    /\ lastEv' = NoEv
    /\ UNCHANGED << ndebug, rt, depth, blockJmp, entryStored, thState,
                    varsCall, varsEmit >>

\* The entry function returns; the host destroys the Runtime.
HostReturn(t) ==
    /\ Running(t)
    /\ pc[Top(t)] = MainFunc
    /\ depth' = [depth EXCEPT ![t] = @ - 1]
    /\ pc' = [pc EXCEPT ![Top(t)] = "none"]
    /\ entryStored' = [entryStored EXCEPT ![Top(t)] = NoPtr]
    /\ lastEv' = NoEv
    /\ UNCHANGED << ndebug, rt, blockJmp, thState, varsCall, varsEmit >>

\* The address computation of each kind of access.
AccessPlace(kind, fn) ==
    CASE kind = "field_read" -> get(Index("Gas"), fn, TheGlobal).ptr
      [] kind = "field_write" -> set(Index("Gas"), Const(0), fn, TheGlobal).ptr
      [] kind = "calldata_read" -> getCallData(fn, TheGlobal).ptr
      [] kind = "code_read" -> getCode(fn, TheGlobal).ptr

AccessKinds == {"field_read", "field_write", "calldata_read", "code_read"}

\* Generated code of the innermost call of thread t reads or writes through a
\* handle.  Through a pointer to a destroyed Runtime the behaviour is
\* undefined: the access may land in the storage left behind, or fault.
GenAccess(t, kind, faults) ==
    LET a == Top(t)
        blk == EvalBlock(AccessPlace(kind, pc[a]), MainArgs(a), rt)
    IN  /\ Running(t)
        /\ faults => ~Live(blk)
        /\ lastEv' = [NoEv EXCEPT !.kind = kind, !.t = t, !.d = a[2], !.fn = pc[a],
                                  !.blk = blk, !.slot = rt, !.stored = entryStored[a],
                                  !.defined = Live(blk)]
        /\ thState' = IF faults THEN "undefined" ELSE thState
        /\ UNCHANGED << ndebug, rt, depth, pc, blockJmp, entryStored, varsCall, varsEmit >>

\* Generated code of the innermost call of thread t runs raiseException(code):
\* longjmp to the jmpBuf read through the handle.  With the call's own
\* checkpoint the call ends and the host sees the code there.  A longjmp to
\* the checkpoint of a call that has ended, or of another thread, is undefined.
GenRaise(t, code) ==
    LET a == Top(t)
        ins == raiseException(code, pc[a], TheGlobal, TheLongjmp)
        blk == EvalBlock(ins.a1.ptr, MainArgs(a), rt)
        jb == IF blk \in Addrs THEN ExecLoad(ins.a1, MemoRun, MainArgs(a), rt) ELSE NoPtr
        ok == jb[1] = t /\ Live(jb)
        ev == [NoEv EXCEPT !.kind = "abort", !.t = t, !.d = a[2], !.fn = pc[a],
                           !.blk = blk, !.slot = rt, !.stored = entryStored[a],
                           !.target = jb, !.code = ins.a2.v,
                           !.observed = IF ok THEN Longjmp(ins.a2.v) ELSE 0,
                           !.defined = ok]
    IN  /\ Running(t)
        /\ ins.callee = TheLongjmp
        /\ lastEv' = ev
        /\ IF ok
           THEN /\ depth' = [depth EXCEPT ![t] = jb[2] - 1]
                /\ pc' = [x \in Addrs |-> IF x[1] = t /\ x[2] >= jb[2] THEN "none" ELSE pc[x]]
                /\ entryStored' = [x \in Addrs |->
                      IF x[1] = t /\ x[2] >= jb[2] THEN NoPtr ELSE entryStored[x]]
                /\ UNCHANGED thState
           ELSE /\ thState' = "undefined"
                /\ UNCHANGED << depth, pc, entryStored >>
        /\ UNCHANGED << ndebug, rt, blockJmp, varsCall, varsEmit >>

NextRun ==
    \E t \in Threads :
        \/ HostCall(t)
        \/ EnterMainRun(t)
        \/ CallHelper(t)
        \/ ReturnHelper(t)
        \/ HostReturn(t)
        \/ \E kind \in AccessKinds : \E faults \in BOOLEAN : GenAccess(t, kind, faults)
        \/ \E code \in ReturnCodes : GenRaise(t, code)

SpecRun == InitRun /\ [][NextRun]_vars

\* C2: with calls nested on one thread, an abort raised by the innermost call,
\* from the entry function or a helper, also after a deeper call has ended,
\* lands at that call's own checkpoint, and the host sees the code passed.
C2_AbortLandsAtOwnCheckpoint ==
    (/\ lastEv.kind = "abort"
     /\ \A u \in Threads \ {lastEv.t} : blockJmp[<< u, 1 >>] = NoPtr)
        => /\ lastEv.target = << lastEv.t, lastEv.d >>
           /\ lastEv.defined
           /\ lastEv.observed = lastEv.code

\* C3: with calls running on two threads, whatever generated code of a call
\* reads, writes or aborts through lands in a block of its own thread.
C3_NoCrossThreadAccess ==
    (lastEv.kind # "none") => lastEv.blk[1] = lastEv.t

\* C9: whenever a helper function loads the global, the entry function of
\* the same call has stored before, what it stored is the call's own layout
\* pointer (the handle the entry function itself uses), and the global does
\* not hold its undefined initial value.
C9_StoreBeforeLoad ==
    (lastEv.kind # "none" /\ lastEv.fn = "helper")
        => /\ lastEv.slot # NoPtr
           /\ lastEv.stored = << lastEv.t, lastEv.d >>
           /\ lastEv.stored = EvalHandle(getRuntimePtr(MainFunc, TheGlobal),
                                         MainArgs(<< lastEv.t, lastEv.d >>), NoPtr)

C9_Witness ==
    /\ lastEv.kind = "field_read"
    /\ lastEv.fn = "helper"
    /\ lastEv.d = 2
    /\ lastEv.slot = << lastEv.t, 2 >>
    /\ lastEv.stored = lastEv.slot

(***************************************************************************)
(* Compile time: RuntimeManagers emitting into one module.  The module     *)
(* starts with its entry function and one helper function, both empty.     *)
(***************************************************************************)
\* The instructions a term adds to the function, operands first.
RECURSIVE Flatten(_)
Flatten(x) ==
    CASE x.k = "load" -> Flatten(x.ptr) \o << "load" >>
      [] x.k = "gep" -> Flatten(x.base) \o << "getelementptr" >>
      [] x.k = "store" -> Flatten(x.val) \o Flatten(x.ptr) \o << "store" >>
      [] x.k = "call" -> Flatten(x.a1) \o Flatten(x.a2) \o << "call" >>
      [] OTHER -> << >>

InitEmit ==
    /\ ndebug \in BOOLEAN
    /\ rt = NoPtr
    /\ globals = << >>
    /\ decls = << >>
    /\ body = [f \in Functions |-> << >>]
    /\ insertFn = MainFunc
    /\ managers = << >>
    /\ lastEmit = NoEmit
    /\ emitState = "running"
    /\ IdleCall
    /\ IdleRun

BodySize == Len(body[MainFunc]) + Len(body["helper"])

\* The builder emits: the instructions go to the end of the current function.
Emitted(op, inst, path, value, added) ==
    /\ BodySize + Len(added) <= MaxBody
    /\ body' = [body EXCEPT ![insertFn] = @ \o added]
    /\ lastEmit' = [op |-> op, inst |-> inst, path |-> path, value |-> value,
                    fn |-> insertFn, added |-> added]

\* RuntimeManager::RuntimeManager(_builder): a new global "rt", a new
\* declaration of longjmp, and the store into the global.  Where the builder
\* is not in the entry function getMainFunction() is null and the constructor
\* dereferences it.
CreateRuntimeManager ==
    LET g == Len(globals) + 1
        f == Len(decls) + 1
    IN  /\ emitState = "running"
        /\ Len(managers) < MaxManagers
        /\ globals' = Append(globals, "rt")
        /\ decls' = Append(decls, TheLongjmp)
        /\ IF getMainFunction(insertFn) = "nullptr"
           THEN /\ emitState' = "undefined"
                /\ lastEmit' = [NoEmit EXCEPT !.op = "ctor", !.fn = insertFn]
                /\ UNCHANGED << body, managers >>
           ELSE /\ Emitted("ctor", "none", "none", CtorStore(GlobalVar(g)),
                           Flatten(CtorStore(GlobalVar(g))))
                /\ managers' = Append(managers, [dataPtr |-> g, longjmp |-> f])
                /\ UNCHANGED emitState
        /\ UNCHANGED << ndebug, rt, insertFn, varsCall, varsRun >>

\* The compiler moves the builder to another function.
SetInsertPoint(fn) ==
    /\ emitState = "running"
    /\ fn # insertFn
    /\ insertFn' = fn
    /\ lastEmit' = NoEmit
    /\ UNCHANGED << ndebug, rt, globals, decls, body, managers, emitState,
                    varsCall, varsRun >>

\* get(_inst) on manager m.
EmitGetInst(m, inst) ==
    LET r == getInst(inst, insertFn, GlobalVar(managers[m].dataPtr), ndebug)
    IN  /\ emitState = "running"
        /\ Emitted("getInst", inst, r.path, r.value, Flatten(r.value))
        /\ emitState' = IF r.fatal THEN "aborted" ELSE emitState
        /\ UNCHANGED << ndebug, rt, globals, decls, insertFn, managers, varsCall, varsRun >>

\* The other emitting methods of manager m.
EmitCode(m, what) ==
    LET d == GlobalVar(managers[m].dataPtr)
        v == Const(0)
    IN  CASE what = "set" -> << set(Index("CallValue"), v, insertFn, d) >>
          [] what = "setGas" -> << setGas(v, insertFn, d) >>
          [] what = "getGas" -> << getGas(insertFn, d) >>
          [] what = "getCallData" -> << getCallData(insertFn, d) >>
          [] what = "getCode" -> << getCode(insertFn, d) >>
          [] what = "registerReturnData" -> registerReturnData(v, v, insertFn, d)
          [] what = "raiseException" ->
                << raiseException(102, insertFn, d, decls[managers[m].longjmp]) >>

Methods == {"set", "setGas", "getGas", "getCallData", "getCode",
            "registerReturnData", "raiseException"}

EmitMethod(m, what) ==
    LET code == EmitCode(m, what)
        added == IF Len(code) = 2 THEN Flatten(code[1]) \o Flatten(code[2])
                 ELSE Flatten(code[1])
    IN  /\ emitState = "running"
        /\ Emitted(what, "none", "none", code[Len(code)], added)
        /\ UNCHANGED << ndebug, rt, globals, decls, insertFn, managers, emitState,
                        varsCall, varsRun >>

NextEmit ==
    \/ CreateRuntimeManager
    \/ \E fn \in Functions : SetInsertPoint(fn)
    \/ \E m \in 1 .. Len(managers) : \E inst \in Instructions : EmitGetInst(m, inst)
    \/ \E m \in 1 .. Len(managers) : \E what \in Methods : EmitMethod(m, what)

SpecEmit == InitEmit /\ [][NextEmit]_vars

\* C4: for an opcode that is none of the 14 query opcodes, get(opcode) takes
\* the default label of the switch, where assert(false) ends the compiler
\* when assertions are compiled in; it emits no instruction and returns no
\* load of a field.
C4_UnmappedOpcodeAsserts ==
    (lastEmit.op = "getInst" /\ lastEmit.inst \notin MappedOpcodes)
        => /\ lastEmit.path = "default"
           /\ lastEmit.value = NullValue
           /\ lastEmit.added = << >>
           /\ ~ndebug => emitState = "aborted"

C4_Witness ==
    /\ lastEmit.op = "getInst"
    /\ lastEmit.inst = "BALANCE"
    /\ lastEmit.fn = "helper"
    /\ emitState = "aborted"

\* C8: however many RuntimeManagers were created in the module, it holds one
\* global for the layout pointer and at most one declaration of longjmp.
C8_OneGlobalOneDeclaration ==
    (emitState = "running" /\ Len(managers) >= 1)
        => (Len(globals) = 1 /\ Len(decls) <= 1)

====
